---------------------------- MODULE Spec2Model ----------------------------
(***************************************************************************)
(* A model of asmith26/kaggle-dstl: the HyperParams record of models.py    *)
(* (construction, from_dir, update and the derived properties), the shape  *)
(* and channel bookkeeping of the nine network architectures, upsample2d,   *)
(* and the label remapping script keep_specified_classes.py.                *)
(*                                                                         *)
(* Python values are tagged records; every tag has its own field names:    *)
(*   int   [t |-> "int",   i |-> n]                                         *)
(*   float [t |-> "float", m |-> mantissa, e |-> fractional digits]         *)
(*   str   [t |-> "str",   s |-> sequence of characters]                    *)
(*   list  [t |-> "list",  l |-> sequence of values]                        *)
(* A string that the code parses is a sequence of one-character strings.   *)
(***************************************************************************)
EXTENDS Integers, Sequences, FiniteSets, TLC

VARIABLES
    hps,          \* the HyperParams record: field name -> value
    err,          \* outcome of the last HyperParams operation
    op,           \* the last HyperParams operation
    hps_string,   \* the argument of the last update
    params,       \* the JSON object read by the last from_dir
    pre,          \* the record the last operation started from
    n_updates,    \* update calls made on the current record
    net,          \* the last forward call: architecture, geometry and outcome
    up,           \* the last upsample2d call: input and output tensor
    csv           \* the remapping script: input table and outcome

vars == <<hps, err, op, hps_string, params, pre, n_updates, net, up, csv>>

-----------------------------------------------------------------------------
(* Bounds of the model.                                                    *)

\* longest generated override value, in characters
MaxValLen == 2
\* update calls on one record
MaxUpdates == 1
\* largest batch size and channel count of an upsampled tensor
MaxPlanes == 2
\* largest height and width of an upsampled tensor
MaxSide == 2
\* most rows of a label table
MaxRows == 2

-----------------------------------------------------------------------------
(* Python values.                                                          *)

IntV(n) == [t |-> "int", i |-> n]

RECURSIVE NormFloat(_, _)
\* a decimal m * 10^-e without trailing fractional zeros: 0.20 is 0.2
NormFloat(m, e) ==
    IF e > 0 /\ m % 10 = 0 THEN NormFloat(m \div 10, e - 1)
    ELSE [t |-> "float", m |-> m, e |-> e]

FloatV(m, e) == NormFloat(m, e)

StrV(s) == [t |-> "str", s |-> s]

ListV(l) == [t |-> "list", l |-> l]

IntList(ns) == ListV([k \in 1..Len(ns) |-> IntV(ns[k])])

NoneV == [t |-> "none"]

-----------------------------------------------------------------------------
(* HyperParams: the attr.ib fields in declaration order and their defaults. *)

FieldNames ==
    << "classes", "net", "n_channels", "thresholds",
       "patch_inner", "patch_border",
       "augment_rotations", "augment_flips", "augment_channels",
       "validation_square",
       "dropout", "bn", "activation", "dice_loss", "dist_loss",
       "filters_base",
       "n_epochs", "oversample", "lr", "lr_decay", "batch_size" >>

Fields == {FieldNames[k] : k \in 1..Len(FieldNames)}

\* total_classes is a plain class attribute, not an attr.ib field
total_classes == 10

Default ==
    [f \in Fields |->
        CASE f = "classes"           -> IntList(<<0, 1, 2, 3, 4, 5, 6, 7, 8, 9>>)
          [] f = "net"               -> StrV(<<"U", "N", "e", "t">>)
          [] f = "n_channels"        -> IntV(12)
          [] f = "thresholds"        -> ListV(<<FloatV(5, 1)>>)
          [] f = "patch_inner"       -> IntV(64)
          [] f = "patch_border"      -> IntV(16)
          [] f = "augment_rotations" -> FloatV(100, 1)
          [] f = "augment_flips"     -> IntV(0)
          [] f = "augment_channels"  -> IntV(0)
          [] f = "validation_square" -> IntV(400)
          [] f = "dropout"           -> FloatV(0, 1)
          [] f = "bn"                -> IntV(1)
          [] f = "activation"        -> StrV(<<"r", "e", "l", "u">>)
          [] f = "dice_loss"         -> FloatV(0, 1)
          [] f = "dist_loss"         -> FloatV(0, 1)
          [] f = "filters_base"      -> IntV(32)
          [] f = "n_epochs"          -> IntV(100)
          [] f = "oversample"        -> FloatV(0, 1)
          [] f = "lr"                -> FloatV(1, 4)
          [] f = "lr_decay"          -> FloatV(0, 1)
          [] f = "batch_size"        -> IntV(128)]

\* HyperParams(): every field at its default
HyperParams == Default

n_classes(h) == Len(h["classes"].l)

has_all_classes(h) == n_classes(h) = total_classes

-----------------------------------------------------------------------------
(* from_dir: the JSON object of hps.json overlaid on the defaults.         *)

\* from_dir without the filter on the field names
from_dir_Unfiltered(p) ==
    [f \in Fields \cup DOMAIN p |-> IF f \in DOMAIN p THEN p[f] ELSE Default[f]]

from_dir(p) ==
    LET kept == DOMAIN p \cap Fields
    IN  [f \in Fields |-> IF f \in kept THEN p[f] ELSE Default[f]]

-----------------------------------------------------------------------------
(* The coercions update applies: int(v), float(v), str(v) and              *)
(* [int(x) for x in v.split('-')].                                          *)

Digits == {"0", "1", "2", "3", "4", "5", "6", "7", "8", "9"}

DigitVal(c) ==
    CASE c = "0" -> 0 [] c = "1" -> 1 [] c = "2" -> 2 [] c = "3" -> 3
      [] c = "4" -> 4 [] c = "5" -> 5 [] c = "6" -> 6 [] c = "7" -> 7
      [] c = "8" -> 8 [] c = "9" -> 9

AllDigits(s) == \A k \in 1..Len(s) : s[k] \in Digits

RECURSIVE DigitsValue(_)
DigitsValue(s) ==
    IF s = <<>> THEN 0
    ELSE 10 * DigitsValue(SubSeq(s, 1, Len(s) - 1)) + DigitVal(s[Len(s)])

Signed(s) == Len(s) > 0 /\ s[1] \in {"+", "-"}

Unsigned(s) == IF Signed(s) THEN Tail(s) ELSE s

SignOf(s) == IF Len(s) > 0 /\ s[1] = "-" THEN -1 ELSE 1

Failed == [ok |-> FALSE, val |-> NoneV]

Parsed(v) == [ok |-> TRUE, val |-> v]

\* int(v): an optional sign and at least one decimal digit
ParseInt(s) ==
    LET body == Unsigned(s)
    IN  IF Len(body) > 0 /\ AllDigits(body)
        THEN Parsed(IntV(SignOf(s) * DigitsValue(body)))
        ELSE Failed

\* float(v): an optional sign, digits with at most one point, one digit at least
ParseFloat(s) ==
    LET body == Unsigned(s)
        dots == {k \in 1..Len(body) : body[k] = "."}
    IN  IF dots = {}
        THEN IF Len(body) > 0 /\ AllDigits(body)
             THEN Parsed(FloatV(SignOf(s) * DigitsValue(body), 0))
             ELSE Failed
        ELSE LET p  == CHOOSE k \in dots : TRUE
                 ip == SubSeq(body, 1, p - 1)
                 fp == SubSeq(body, p + 1, Len(body))
             IN  IF /\ Cardinality(dots) = 1
                    /\ AllDigits(ip) /\ AllDigits(fp)
                    /\ Len(ip) + Len(fp) > 0
                 THEN Parsed(FloatV(SignOf(s) * DigitsValue(ip \o fp), Len(fp)))
                 ELSE Failed

RECURSIVE Split(_, _)
\* s.split(sep): one part more than there are separators, empty parts kept
Split(s, sep) ==
    IF \A k \in 1..Len(s) : s[k] # sep THEN <<s>>
    ELSE LET p == CHOOSE k \in 1..Len(s) :
                      s[k] = sep /\ \A j \in 1..(k - 1) : s[j] # sep
         IN  <<SubSeq(s, 1, p - 1)>> \o Split(SubSeq(s, p + 1, Len(s)), sep)

\* [int(x) for x in v.split('-')]
ParseIntList(s) ==
    LET parts == Split(s, "-")
        each  == [k \in 1..Len(parts) |-> ParseInt(parts[k])]
    IN  IF \A k \in 1..Len(parts) : each[k].ok
        THEN Parsed(ListV([k \in 1..Len(parts) |-> each[k].val]))
        ELSE Failed

\* Coerce with every number taken for an int: a float default coerced by int(v)
Coerce_NumbersAsInt(default, v) ==
    CASE default.t \in {"int", "float"} -> ParseInt(v)
      [] default.t = "str"              -> Parsed(StrV(v))
      [] default.t = "list"             -> ParseIntList(v)
      [] OTHER                          -> Parsed(StrV(v))

\* the coercion chosen by the type of the field's default
Coerce(default, v) ==
    CASE default.t = "int"   -> ParseInt(v)
      [] default.t = "float" -> ParseFloat(v)
      [] default.t = "str"   -> Parsed(StrV(v))
      [] default.t = "list"  -> ParseIntList(v)
      [] OTHER               -> Parsed(StrV(v))

-----------------------------------------------------------------------------
(* update.  hps_string.split(',') is a sequence of pairs; a pair is the    *)
(* result of pair.split('='): its first part, the name, and the parts that *)
(* follow.  dict() takes a pair only when exactly one part follows.        *)

NoError == [kind |-> "none", left |-> {}]

\* dict(...) raises ValueError on a pair that is not of length 2
DictError == [kind |-> "dict", left |-> {}]

\* type(default)(v) or int(x) raises ValueError
CoerceError == [kind |-> "coerce", left |-> {}]

\* ValueError('Unknown hyperparams: {}'.format(values))
UnknownError(left) == [kind |-> "unknown", left |-> left]

PairsOK(s) == \A k \in 1..Len(s) : Len(s[k].rest) = 1

NamesOf(s) == {s[k].name : k \in 1..Len(s)}

\* dict(pairs): a later pair with the same name replaces an earlier one
DictOf(s) ==
    [n \in NamesOf(s) |->
        LET last == CHOOSE k \in 1..Len(s) :
                        s[k].name = n /\ \A j \in (k + 1)..Len(s) : s[j].name # n
        IN  s[last].rest[1]]

\* values.get(n) in place of values.pop(n): the name stays in the dict
Without_Get(values, n) == values

\* values.pop(n)
Without(values, n) == [m \in DOMAIN values \ {n} |-> values[m]]

Items(values) == {<<n, values[n]>> : n \in DOMAIN values}

RECURSIVE UpdateLoop(_, _, _)
\* for field in attr.fields(HyperParams): pop, coerce, setattr
UpdateLoop(h, values, k) ==
    IF k > Len(FieldNames)
    THEN [hps |-> h,
          err |-> IF DOMAIN values # {} THEN UnknownError(Items(values))
                  ELSE NoError]
    ELSE LET f == FieldNames[k]
         IN  IF f \notin DOMAIN values
             THEN UpdateLoop(h, values, k + 1)
             ELSE LET c == Coerce(Default[f], values[f])
                  IN  IF ~c.ok
                      THEN [hps |-> h, err |-> CoerceError]
                      ELSE UpdateLoop([h EXCEPT ![f] = c.val],
                                      Without(values, f), k + 1)

\* update on a copy that is stored only on success
update_AllOrNothing(h, s) ==
    LET r == IF s = <<>> THEN [hps |-> h, err |-> NoError]
             ELSE IF ~PairsOK(s) THEN [hps |-> h, err |-> DictError]
             ELSE UpdateLoop(h, DictOf(s), 1)
    IN  IF r.err = NoError THEN r ELSE [hps |-> h, err |-> r.err]

update(h, s) ==
    IF s = <<>> THEN [hps |-> h, err |-> NoError]
    ELSE IF ~PairsOK(s) THEN [hps |-> h, err |-> DictError]
    ELSE UpdateLoop(h, DictOf(s), 1)

-----------------------------------------------------------------------------
(* upsample2d.  A tensor of shape (B, C, H, W) is a sequence of B          *)
(* sequences of C sequences of H rows of W values; Python's index i is     *)
(* position i + 1.                                                          *)

size(x) == <<Len(x), Len(x[1]), Len(x[1][1]), Len(x[1][1][1])>>

\* x[:, :, r, :]
SelectRow(x, r) ==
    [b \in 1..Len(x) |-> [c \in 1..Len(x[b]) |-> x[b][c][r + 1]]]

\* x[:, :, :, r]
SelectCol(x, r) ==
    [b \in 1..Len(x) |->
        [c \in 1..Len(x[b]) |->
            [i \in 1..Len(x[b][c]) |-> x[b][c][i][r + 1]]]]

\* torch.stack(ts, 2) of tensors of shape (B, C, W)
Stack2(ts) ==
    [b \in 1..Len(ts[1]) |->
        [c \in 1..Len(ts[1][b]) |->
            [k \in 1..Len(ts) |-> ts[k][b][c]]]]

\* torch.stack(ts, 3) of tensors of shape (B, C, H)
Stack3(ts) ==
    [b \in 1..Len(ts[1]) |->
        [c \in 1..Len(ts[1][b]) |->
            [i \in 1..Len(ts[1][b][c]) |->
                [k \in 1..Len(ts) |-> ts[k][b][c][i]]]]]

\* x.repeat(1, 1, 2, 2), the call the comment in upsample2d names: it tiles
upsample2d_Repeat(x) ==
    LET H == size(x)[3]
        W == size(x)[4]
        x1 == Stack2([k \in 1..(H * 2) |-> SelectRow(x, (k - 1) % H)])
    IN  Stack3([k \in 1..(W * 2) |-> SelectCol(x1, (k - 1) % W)])

upsample2d(x) ==
    LET x1 == Stack2([k \in 1..(size(x)[3] * 2) |-> SelectRow(x, (k - 1) \div 2)])
    IN  Stack3([k \in 1..(size(x1)[4] * 2) |-> SelectCol(x1, (k - 1) \div 2)])

-----------------------------------------------------------------------------
(* The networks, by the shape of the tensor each layer returns.  A shape   *)
(* is the channel count, height and width of a batch of one; a layer that  *)
(* raises gives Raised, and every later layer passes it on.  g holds the    *)
(* hyperparameters a network reads: n_channels, n_classes, patch_border,    *)
(* filters_base, bn and activation.                                         *)

Shape(c, h, w) == [ok |-> TRUE, c |-> c, h |-> h, w |-> w]

Raised == [ok |-> FALSE, c |-> 0, h |-> 0, w |-> 0]

\* nn.Conv2d(in_, out, k, padding=pad, stride=stride) applied to t
Conv2d(t, in_, out, k, pad, stride) ==
    IF ~t.ok \/ t.c # in_ \/ t.h + 2 * pad < k \/ t.w + 2 * pad < k
    THEN Raised
    ELSE Shape(out, (t.h + 2 * pad - k) \div stride + 1,
                    (t.w + 2 * pad - k) \div stride + 1)

conv3x3(t, in_, out) == Conv2d(t, in_, out, 3, 1, 1)

\* nn.MaxPool2d(2, 2): an output of extent 0 raises
MaxPool2d(t) ==
    IF ~t.ok \/ t.h \div 2 = 0 \/ t.w \div 2 = 0 THEN Raised
    ELSE Shape(t.c, t.h \div 2, t.w \div 2)

\* nn.BatchNorm2d(n) applied to t
BatchNorm2d(t, n) == IF ~t.ok \/ t.c # n THEN Raised ELSE t

\* torch.cat([a, b], 1)
Cat(a, b) ==
    IF ~a.ok \/ ~b.ok \/ a.h # b.h \/ a.w # b.w THEN Raised
    ELSE Shape(a.c + b.c, a.h, a.w)

\* the shape of upsample2d(t)
Upsampled(t) == IF ~t.ok THEN Raised ELSE Shape(t.c, 2 * t.h, 2 * t.w)

\* len(range(n)[b:-b]): -0 is 0, so the slice 0:-0 is empty
SliceLen(n, b) ==
    IF b = 0 THEN 0
    ELSE LET start == IF b < n THEN b ELSE n
             stop  == IF n - b > 0 THEN n - b ELSE 0
         IN  IF stop > start THEN stop - start ELSE 0

\* F.sigmoid(x[:, :, b:-b, b:-b]); an empty slice is an empty tensor where
\* the framework has tensors of extent 0 (empty_ok) and raises where not
Crop(t, b, empty_ok) ==
    IF ~t.ok THEN Raised
    ELSE LET h == SliceLen(t.h, b)
             w == SliceLen(t.w, b)
         IN  IF (h = 0 \/ w = 0) /\ ~empty_ok THEN Raised
             ELSE Shape(t.c, h, w)

MiniNet(g, x, empty_ok) ==
    LET x1 == Conv2d(x, g.n_channels, 4, 1, 0, 1)
        x2 == Conv2d(x1, 4, 8, 3, 1, 1)
        x3 == Conv2d(x2, 8, g.n_classes, 3, 1, 1)
    IN  Crop(x3, g.patch_border, empty_ok)

OldNet(g, x, empty_ok) ==
    LET x1 == Conv2d(x, g.n_channels, 64, 5, 2, 1)
        x2 == Conv2d(x1, 64, 64, 5, 2, 1)
        x3 == Conv2d(x2, 64, 64, 5, 2, 1)
        x4 == Conv2d(x3, 64, g.n_classes, 7, 3, 1)
    IN  Crop(x4, g.patch_border, empty_ok)

SmallNet(g, x, empty_ok) ==
    LET x1 == Conv2d(x, g.n_channels, 64, 3, 1, 1)
        x2 == Conv2d(x1, 64, 64, 3, 1, 1)
        x3 == Conv2d(x2, 64, 64, 3, 1, 1)
        x4 == Conv2d(x3, 64, 128, 3, 1, 1)
        x5 == Conv2d(x4, 128, g.n_classes, 3, 1, 1)
    IN  Crop(x5, g.patch_border, empty_ok)

SmallUNet(g, x, empty_ok) ==
    LET a1 == Conv2d(x, g.n_channels, 32, 3, 1, 1)
        a2 == Conv2d(a1, 32, 32, 3, 1, 1)
        b1 == MaxPool2d(a2)
        b2 == Conv2d(b1, 32, 64, 3, 1, 1)
        b3 == Conv2d(b2, 64, 64, 3, 1, 1)
        b4 == Conv2d(b3, 64, 32, 3, 1, 1)
        b5 == Upsampled(b4)
        a3 == Cat(a2, b5)
        a4 == Conv2d(a3, 64, 32, 3, 1, 1)
        a5 == Conv2d(a4, 32, g.n_classes, 3, 1, 1)
    IN  Crop(a5, g.patch_border, empty_ok)

\* BatchNorm2d(n) where hps.bn is set, nothing where it is not
OptionalBN(g, t, n) == IF g.bn # 0 THEN BatchNorm2d(t, n) ELSE t

UNetModule(g, in_, out, x) ==
    LET x1 == OptionalBN(g, conv3x3(x, in_, out), out)
    IN  OptionalBN(g, conv3x3(x1, out, out), out)

Conv3BN(g, in_, out, x) == OptionalBN(g, conv3x3(x, in_, out), out)

UNet3lModule(g, in_, out, x) ==
    Conv3BN(g, out, out, Conv3BN(g, out, out, Conv3BN(g, in_, out, x)))

UNet2Module(g, in_, out, x) ==
    Conv3BN(g, out, out, Conv3BN(g, in_, out, x))

\* conv, BatchNorm2d, ReLU
BasicConv2d(t, in_planes, out_planes, k, pad) ==
    BatchNorm2d(Conv2d(t, in_planes, out_planes, k, pad, 1), out_planes)

\* the widths of the 1x1 and the 3x3 branch, and of the 5x5 branch
out_1(out) == (out * 3) \div 8

out_2(out) == (out * 2) \div 8

\* the constructor asserts hps.bn and hps.activation == 'relu'
InceptionModule(g, in_, out, x) ==
    IF g.bn = 0 \/ g.activation # "relu" THEN Raised
    ELSE LET b1 == BasicConv2d(x, in_, out_1(out), 1, 0)
             b3 == BasicConv2d(BasicConv2d(x, in_, in_ \div 2, 1, 0),
                               in_ \div 2, out_1(out), 3, 1)
             b5 == BasicConv2d(BasicConv2d(x, in_, in_ \div 4, 1, 0),
                               in_ \div 4, out_2(out), 5, 2)
         IN  Cat(Cat(b1, b3), b5)

Inception2Module(g, in_, out, x) ==
    InceptionModule(g, out, out, InceptionModule(g, in_, out, x))

\* the block a UNet subclass builds its levels from
Module(kind, g, in_, out, x) ==
    CASE kind = "UNetModule"       -> UNetModule(g, in_, out, x)
      [] kind = "UNet3lModule"     -> UNet3lModule(g, in_, out, x)
      [] kind = "InceptionModule"  -> InceptionModule(g, in_, out, x)
      [] kind = "Inception2Module" -> Inception2Module(g, in_, out, x)

filter_factors == <<1, 2, 4, 8, 16>>

filter_sizes(g) ==
    [i \in 1..Len(filter_factors) |-> g.filters_base * filter_factors[i]]

\* the width below level i: the input channels at the first level
LowNf(sizes, g, i) == IF i = 1 THEN g.n_channels ELSE sizes[i - 1]

RECURSIVE UNetDown(_, _, _, _)
\* xs after encoder levels 1..i (dropout2d keeps the shape)
UNetDown(kind, g, x, i) ==
    LET sizes == filter_sizes(g)
    IN  IF i = 1 THEN <<Module(kind, g, LowNf(sizes, g, 1), sizes[1], x)>>
        ELSE LET xs == UNetDown(kind, g, x, i - 1)
             IN  Append(xs, Module(kind, g, LowNf(sizes, g, i), sizes[i],
                                   MaxPool2d(xs[i - 1])))

RECURSIVE UNetUp(_, _, _, _)
\* x_out once the decoder has run levels Len(xs) - 1 down to i
UNetUp(kind, g, xs, i) ==
    LET sizes == filter_sizes(g)
    IN  IF i = Len(xs) THEN xs[i]
        ELSE LET x_out == UNetUp(kind, g, xs, i + 1)
             IN  IF ~x_out.ok THEN Raised
                 ELSE Module(kind, g, sizes[i] + sizes[i + 1], sizes[i],
                             Cat(Upsampled(x_out), xs[i]))

UNet(kind, g, x, empty_ok) ==
    LET xs    == UNetDown(kind, g, x, Len(filter_factors))
        x_out == Conv2d(UNetUp(kind, g, xs, 1), filter_sizes(g)[1],
                        g.n_classes, 1, 0, 1)
    IN  Crop(x_out, g.patch_border, empty_ok)

filters(g) ==
    LET b == g.filters_base
    IN  <<b * 2, b * 2, b * 4, b * 8, b * 16>>

RECURSIVE UNet2Down(_, _, _)
\* xs after encoder levels 1..i
UNet2Down(g, x, i) ==
    LET low_nf == LowNf(filters(g), g, i)
    IN  IF i = 1 THEN <<UNet2Module(g, low_nf, filters(g)[1], x)>>
        ELSE LET xs == UNet2Down(g, x, i - 1)
             IN  Append(xs, UNet2Module(g, low_nf, filters(g)[i],
                                Conv2d(xs[i - 1], low_nf, low_nf, 3, 1, 2)))

RECURSIVE UNet2Up(_, _, _)
\* x_out once the decoder has run levels Len(xs) - 1 down to i
UNet2Up(g, xs, i) ==
    LET fs == filters(g)
    IN  IF i = Len(xs) THEN xs[i]
        ELSE LET x_out == UNet2Up(g, xs, i + 1)
             IN  IF ~x_out.ok THEN Raised
                 ELSE UNet2Module(g, fs[i] + fs[i + 1], fs[i],
                                  Cat(Upsampled(x_out),
                                      Conv3BN(g, fs[i], fs[i], xs[i])))

UNet2(g, x, empty_ok) ==
    LET xs    == UNet2Down(g, x, Len(filters(g)))
        x_out == Conv2d(UNet2Up(g, xs, 1), filters(g)[1], g.n_classes, 1, 0, 1)
    IN  Crop(x_out, g.patch_border, empty_ok)

\* whether the constructor of the class named arch returns: the Inception
\* blocks assert hps.bn and hps.activation == 'relu'
Constructs(arch, g) ==
    arch \in {"InceptionUNet", "Inception2UNet"}
    => (g.bn # 0 /\ g.activation = "relu")

Architectures ==
    {"MiniNet", "OldNet", "SmallNet", "SmallUNet", "UNet", "UNet3l", "UNet2",
     "InceptionUNet", "Inception2UNet"}

\* model.forward(x) for the class named arch
forward(arch, g, x, empty_ok) ==
    CASE arch = "MiniNet"        -> MiniNet(g, x, empty_ok)
      [] arch = "OldNet"         -> OldNet(g, x, empty_ok)
      [] arch = "SmallNet"       -> SmallNet(g, x, empty_ok)
      [] arch = "SmallUNet"      -> SmallUNet(g, x, empty_ok)
      [] arch = "UNet"           -> UNet("UNetModule", g, x, empty_ok)
      [] arch = "UNet3l"         -> UNet("UNet3lModule", g, x, empty_ok)
      [] arch = "UNet2"          -> UNet2(g, x, empty_ok)
      [] arch = "InceptionUNet"  -> UNet("InceptionModule", g, x, empty_ok)
      [] arch = "Inception2UNet" -> UNet("Inception2Module", g, x, empty_ok)

-----------------------------------------------------------------------------
(* keep_specified_classes.py: df is the sequence of the rows of            *)
(* train_wkt_v4FULL.csv, a row a record of its three columns.               *)

Columns == <<"ImageId", "ClassType", "MultipolygonWKT">>

RECURSIVE Remap(_)
\* new_df after the loop over df.iterrows()
Remap(df) ==
    IF df = <<>> THEN <<>>
    ELSE LET row  == df[Len(df)]
             done == Remap(SubSeq(df, 1, Len(df) - 1))
         IN  IF row.ClassType = 6
             THEN Append(done, [ImageId |-> row.ImageId, ClassType |-> 1,
                                MultipolygonWKT |-> row.MultipolygonWKT])
             ELSE IF row.ClassType = 7
             THEN Append(done, [ImageId |-> row.ImageId, ClassType |-> 2,
                                MultipolygonWKT |-> row.MultipolygonWKT])
             ELSE done

\* pd.DataFrame(new_df)[Columns].to_csv(..., index=False, header=True): a
\* frame made of no rows has no columns, and selecting Columns from it
\* raises KeyError before anything is written
WriteCsv(new_df) ==
    IF new_df = <<>>
    THEN [written |-> FALSE, header |-> <<>>, rows |-> <<>>]
    ELSE [written |-> TRUE, header |-> Columns,
          rows |-> [k \in 1..Len(new_df) |->
                      <<new_df[k].ImageId, new_df[k].ClassType,
                        new_df[k].MultipolygonWKT>>]]

-----------------------------------------------------------------------------
(* The inputs the operations are run on.                                   *)

ValueChars == {"1", ".", "-"}

\* every value of at most MaxValLen characters over ValueChars
ValueStrings == UNION {[1..n -> ValueChars] : n \in 0..MaxValLen}

\* one field of each coercion, and a name that is no field
GenNames == {"filters_base", "dropout", "classes", "activation", "foo"}

Pair(n, v) == [name |-> n, rest |-> <<v>>]

GeneratedStrings == {<<Pair(n, v)>> : n \in GenNames, v \in ValueStrings}

ChosenStrings ==
    { <<>>,
      \* "filters_base=16,dropout=0.2"
      <<Pair("filters_base", <<"1", "6">>), Pair("dropout", <<"0", ".", "2">>)>>,
      \* "foo=1"
      <<Pair("foo", <<"1">>)>>,
      \* "filters_base=16,foo=1"
      <<Pair("filters_base", <<"1", "6">>), Pair("foo", <<"1">>)>>,
      \* "foo=1,filters_base=32"
      <<Pair("foo", <<"1">>), Pair("filters_base", <<"3", "2">>)>>,
      \* "bar=2,patch_inner=32,foo=1"
      <<Pair("bar", <<"2">>), Pair("patch_inner", <<"3", "2">>),
        Pair("foo", <<"1">>)>>,
      \* "n_epochs=5,dropout=abc,foo=1"
      <<Pair("n_epochs", <<"5">>), Pair("dropout", <<"a", "b", "c">>),
        Pair("foo", <<"1">>)>>,
      \* "batch_size=64,lr=0.5,bn=x"
      <<Pair("batch_size", <<"6", "4">>), Pair("lr", <<"0", ".", "5">>),
        Pair("bn", <<"x">>)>>,
      \* "filters_base=16,filters_base=8"
      <<Pair("filters_base", <<"1", "6">>), Pair("filters_base", <<"8">>)>>,
      \* "net=UNet2,activation=elu,thresholds=1-2"
      <<Pair("net", <<"U", "N", "e", "t", "2">>),
        Pair("activation", <<"e", "l", "u">>),
        Pair("thresholds", <<"1", "-", "2">>)>>,
      \* "classes=0-0-0-0-0-0-0-0-0-0"
      <<Pair("classes", <<"0", "-", "0", "-", "0", "-", "0", "-", "0", "-",
                          "0", "-", "0", "-", "0", "-", "0", "-", "0">>)>>,
      \* "classes=10"
      <<Pair("classes", <<"1", "0">>)>>,
      \* "patch_border=64"
      <<Pair("patch_border", <<"6", "4">>)>>,
      \* "filters_base" (no '=')
      <<[name |-> "filters_base", rest |-> <<>>]>>,
      \* "dropout=0.2,lr=a=b"
      <<Pair("dropout", <<"0", ".", "2">>),
        [name |-> "lr", rest |-> <<<<"a">>, <<"b">>>>]>> }

OverrideStrings == GeneratedStrings \cup ChosenStrings

NoParams == [k \in {} |-> NoneV]

\* the JSON objects from_dir is run on, as json.loads returns them
JsonObjects ==
    { NoParams,
      [filters_base |-> IntV(16), dropout |-> FloatV(2, 1)],
      [classes |-> IntList(<<6, 7>>), foo |-> IntV(1),
       comment |-> StrV(<<"x">>)],
      [classes |-> IntList(<<>>), patch_border |-> IntV(64)],
      [foo |-> IntV(1)],
      [filters_base |-> StrV(<<"1", "6">>)],
      [classes |-> IntList(<<1, 2, 3, 4, 5, 6, 7, 8, 9, 10>>),
       net |-> StrV(<<"U", "N", "e", "t", "2">>)] }

\* the tensor of shape (B, C, H, W) whose values count up from first
Counting(B, C, H, W, first) ==
    [b \in 1..B |-> [c \in 1..C |-> [i \in 1..H |-> [j \in 1..W |->
        first + (((b - 1) * C + (c - 1)) * H + (i - 1)) * W + (j - 1)]]]]

Firsts == {0, 1, 10}

\* every tensor of one plane with values 0 and 1, and the counting tensors
Tensors ==
    {<<<<x>>>> : x \in UNION {[1..H -> [1..W -> {0, 1}]] :
                               H \in 1..MaxSide, W \in 1..MaxSide}}
    \cup {Counting(B, C, H, W, first) :
              B \in 1..MaxPlanes, C \in 1..MaxPlanes,
              H \in 1..MaxSide, W \in 1..MaxSide, first \in Firsts}

\* the hyperparameters the networks are built with; the defaults are among
\* them: 12 channels, 10 classes, 64 + 2 * 16 pixels, filters_base 32
Geometries ==
    [n_channels   : {4, 12},
     n_classes    : {1, 10},
     patch_inner  : {1, 2, 16, 30, 64},
     patch_border : {0, 1, 8, 16},
     filters_base : {4, 8, 32},
     bn           : {0, 1},
     activation   : {"relu", "elu"}]

LabelRows ==
    [ImageId : {"img1", "img2"}, ClassType : {1, 3, 6, 7},
     MultipolygonWKT : {"MULTIPOLYGON (((0 0, 0 1, 1 1, 0 0)))",
                        "MULTIPOLYGON EMPTY"}]

\* every label table of at most MaxRows rows
LabelTables == UNION {[1..n -> LabelRows] : n \in 0..MaxRows}

-----------------------------------------------------------------------------
(* The state before anything has run, and the HyperParams operations.      *)

NetIdle == [phase |-> "idle"]

UpIdle == [phase |-> "idle"]

CsvIdle == [phase |-> "idle"]

Init ==
    /\ hps = HyperParams
    /\ err = NoError
    /\ op = "construct"
    /\ hps_string = <<>>
    /\ params = NoParams
    /\ pre = HyperParams
    /\ n_updates = 0
    /\ net = NetIdle
    /\ up = UpIdle
    /\ csv = CsvIdle

\* hps = HyperParams()
Construct ==
    /\ op # "construct"
    /\ hps' = HyperParams
    /\ err' = NoError
    /\ op' = "construct"
    /\ hps_string' = <<>>
    /\ params' = NoParams
    /\ pre' = HyperParams
    /\ n_updates' = 0
    /\ UNCHANGED <<net, up, csv>>

\* hps = HyperParams.from_dir(root)
FromDir ==
    \E p \in JsonObjects :
        /\ hps' = from_dir(p)
        /\ err' = NoError
        /\ op' = "from_dir"
        /\ hps_string' = <<>>
        /\ params' = p
        /\ pre' = HyperParams
        /\ n_updates' = 0
        /\ UNCHANGED <<net, up, csv>>

\* hps.update(hps_string)
Update ==
    \E s \in OverrideStrings :
        /\ n_updates < MaxUpdates
        /\ LET r == update(hps, s)
           IN  /\ hps' = r.hps
               /\ err' = r.err
        /\ op' = "update"
        /\ hps_string' = s
        /\ pre' = hps
        /\ n_updates' = n_updates + 1
        /\ UNCHANGED <<params, net, up, csv>>

NextHps == Construct \/ FromDir \/ Update

SpecHps == Init /\ [][NextHps]_vars

-----------------------------------------------------------------------------
(* What the claims about HyperParams say of an override string.            *)

Recognized(s) == NamesOf(s) \cap Fields

Unrecognized(s) == NamesOf(s) \ Fields

\* the value the string gives a name: that of its last pair
ValueFor(s, n) ==
    LET ks == {k \in 1..Len(s) : s[k].name = n}
        k  == CHOOSE i \in ks : \A j \in ks : j <= i
    IN  s[k].rest[1]

\* the value coerced as the claims state it: int, float or str after the
\* type of the default, a dash-separated list of ints for a list
Stated(s, f) ==
    LET v == ValueFor(s, f)
        t == Default[f].t
    IN  CASE t = "int"   -> ParseInt(v)
          [] t = "float" -> ParseFloat(v)
          [] t = "str"   -> Parsed([t |-> "str", s |-> v])
          [] t = "list"  -> ParseIntList(v)

Example ==
    <<Pair("filters_base", <<"1", "6">>), Pair("dropout", <<"0", ".", "2">>)>>

\* C2: an update whose names are all fields, and whose values all coerce,
\* completes, sets every named field to its value coerced after the type of
\* the field's default and leaves every other field as it was; on a fresh
\* record "filters_base=16,dropout=0.2" gives filters_base 16, dropout 0.2
\* and every other field its default.
C2_UpdateSetsNamedFields ==
    /\ ( /\ op = "update"
         /\ PairsOK(hps_string)
         /\ NamesOf(hps_string) \subseteq Fields
         /\ \A f \in NamesOf(hps_string) : Stated(hps_string, f).ok )
       => /\ err = NoError
          /\ DOMAIN hps = Fields
          /\ \A f \in Fields :
                hps[f] = IF f \in NamesOf(hps_string)
                         THEN Stated(hps_string, f).val
                         ELSE pre[f]
    /\ (op = "update" /\ pre = Default /\ hps_string = Example)
       => /\ err = NoError
          /\ hps["filters_base"] = [t |-> "int", i |-> 16]
          /\ hps["dropout"] = [t |-> "float", m |-> 2, e |-> 1]
          /\ \A f \in Fields \ {"filters_base", "dropout"} : hps[f] = Default[f]

C2_Witness ==
    /\ op = "update"
    /\ pre = Default
    /\ hps_string = Example
    /\ err = NoError
    /\ hps # pre

\* C3 as stated: an update of a string with a name that is no field fails
\* with the error that lists exactly the unrecognized names, and an update
\* of a string whose names are all fields does not fail with that error.
C3_UnknownNameAlwaysListed ==
    (op = "update" /\ PairsOK(hps_string))
    => /\ Unrecognized(hps_string) # {}
          => /\ err.kind = "unknown"
             /\ {it[1] : it \in err.left} = Unrecognized(hps_string)
       /\ Unrecognized(hps_string) = {} => err.kind # "unknown"

\* C3 amended: an update of a string with a name that is no field fails.
\* When the value of every recognized name coerces, the error is the one
\* that lists exactly the unrecognized names, with their values; when the
\* value of some recognized name does not coerce, the error is the
\* coercion's and lists no name.  A string whose names are all fields never
\* fails with the unknown-name error.
C3_UnknownNameListedWhenValuesCoerce ==
    (op = "update" /\ PairsOK(hps_string))
    => LET unrec  == Unrecognized(hps_string)
           coerce == \A f \in Recognized(hps_string) : Stated(hps_string, f).ok
       IN  /\ unrec # {} => err.kind \in {"unknown", "coerce"}
           /\ (unrec # {} /\ coerce)
              => /\ err.kind = "unknown"
                 /\ err.left = {<<n, ValueFor(hps_string, n)>> : n \in unrec}
           /\ (unrec # {} /\ ~coerce)
              => /\ err.kind = "coerce"
                 /\ err.left = {}
           /\ unrec = {} => err.kind # "unknown"

C3_Witness ==
    /\ op = "update"
    /\ err.kind = "unknown"
    /\ {it[1] : it \in err.left} = {"bar", "foo"}
    /\ Recognized(hps_string) # {}

\* C10 as stated: when an update fails with the unknown-name error on a
\* string that also has recognized names, every recognized name holds its
\* coerced value and the record differs from the record before the update.
C10_FailedUpdateChangesRecord ==
    ( /\ op = "update"
      /\ err.kind = "unknown"
      /\ Recognized(hps_string) # {} )
    => /\ \A f \in Recognized(hps_string) :
             hps[f] = Stated(hps_string, f).val
       /\ hps # pre

\* C10 amended: when an update fails with the unknown-name error on a
\* string that also has recognized names, every recognized name holds its
\* coerced value and every other field is as before; the record differs
\* from the record before the update exactly when some coerced value
\* differs from the value the field had.
C10_FailedUpdateKeepsAssignments ==
    ( /\ op = "update"
      /\ err.kind = "unknown"
      /\ Recognized(hps_string) # {} )
    => /\ \A f \in Recognized(hps_string) :
             hps[f] = Stated(hps_string, f).val
       /\ \A f \in Fields \ Recognized(hps_string) : hps[f] = pre[f]
       /\ hps # pre
          <=> \E f \in Recognized(hps_string) :
                 Stated(hps_string, f).val # pre[f]

C10_Witness ==
    /\ op = "update"
    /\ err.kind = "unknown"
    /\ Recognized(hps_string) # {}
    /\ hps # pre

\* C9: from_dir gives every field that is a key of the JSON object the
\* object's value and every other field its default, has no field beyond
\* those of HyperParams, and does not fail on a key that is no field.
C9_FromDirOverlaysDefaults ==
    op = "from_dir"
    => /\ err = NoError
       /\ DOMAIN hps = Fields
       /\ \A f \in Fields :
             hps[f] = IF f \in DOMAIN params THEN params[f] ELSE Default[f]

C9_Witness ==
    /\ op = "from_dir"
    /\ "foo" \in DOMAIN params
    /\ "classes" \in DOMAIN params
    /\ hps["classes"] = params["classes"]
    /\ hps["classes"] # Default["classes"]
    /\ hps["filters_base"] = Default["filters_base"]

ClassSet(h) == {h["classes"].l[k].i : k \in 1..Len(h["classes"].l)}

\* C4: after every operation that completes without error, classes is not
\* empty, every element of classes is in 0..total_classes-1 and patch_border
\* is smaller than patch_inner.
C4_DataModelInvariant ==
    err = NoError
    => /\ n_classes(hps) > 0
       /\ ClassSet(hps) \subseteq 0..(total_classes - 1)
       /\ hps["patch_border"].i < hps["patch_inner"].i

\* C8: has_all_classes is true exactly when the values of classes are the
\* whole class universe 0..total_classes-1.
C8_HasAllClassesIffUniverse ==
    has_all_classes(hps) <=> ClassSet(hps) = 0..(total_classes - 1)

-----------------------------------------------------------------------------
(* upsample2d calls.                                                       *)

\* a tensor x reaches upsample2d
MakeTensor ==
    \E x \in Tensors :
        /\ up' = [phase |-> "input", x |-> x]
        /\ UNCHANGED <<hps, err, op, hps_string, params, pre, n_updates, net, csv>>

\* y = upsample2d(x)
Upsample ==
    /\ up.phase = "input"
    /\ up' = [phase |-> "done", x |-> up.x, y |-> upsample2d(up.x)]
    /\ UNCHANGED <<hps, err, op, hps_string, params, pre, n_updates, net, csv>>

NextUp == MakeTensor \/ Upsample

SpecUp == Init /\ [][NextUp]_vars

\* the shape of a nested sequence, checked at every level
HasShape(y, B, C, H, W) ==
    /\ Len(y) = B
    /\ \A b \in 1..B :
          /\ Len(y[b]) = C
          /\ \A c \in 1..C :
                /\ Len(y[b][c]) = H
                /\ \A i \in 1..H : Len(y[b][c][i]) = W

-----------------------------------------------------------------------------
(* Building a network and running it on one patch.                         *)

\* model = Class(hps), once in a run
BuildNet ==
    \E arch \in Architectures, g \in Geometries :
        /\ net.phase = "idle"
        /\ net' = [phase |-> "built", arch |-> arch, g |-> g,
                   built |-> Constructs(arch, g)]
        /\ UNCHANGED <<hps, err, op, hps_string, params, pre, n_updates, up, csv>>

\* model.forward(x) for x of shape
\* (1, n_channels, patch_inner + 2 * patch_border, patch_inner + 2 * patch_border)
Forward ==
    \E empty_ok \in BOOLEAN :
        /\ net.phase = "built"
        /\ net.built
        /\ LET g    == net.g
               side == g.patch_inner + 2 * g.patch_border
           IN  net' = [phase |-> "done", arch |-> net.arch, g |-> g,
                       built |-> TRUE,
                       out |-> forward(net.arch, g,
                                       Shape(g.n_channels, side, side),
                                       empty_ok)]
        /\ UNCHANGED <<hps, err, op, hps_string, params, pre, n_updates, up, csv>>

NextNet == BuildNet \/ Forward

SpecNet == Init /\ [][NextNet]_vars

\* C1: forward of every architecture, for every value of n_channels,
\* classes, patch_inner, patch_border and filters_base, completes and returns
\* a tensor of shape (1, n_classes, patch_inner, patch_inner).
C1_ForwardCropsToInner ==
    net.phase = "done"
    => net.out = Shape(net.g.n_classes, net.g.patch_inner, net.g.patch_inner)

\* C5: an InceptionModule asked for out channels has branches of widths
\* out*3//8, out*3//8 and out*2//8 whose concatenation has out channels, for
\* every out = filters_base * factor the U-Net skeleton asks for.
C5_InceptionWidthIsOut ==
    (net.phase = "built" /\ net.built /\ net.arch = "InceptionUNet")
    => \A i \in 1..Len(filter_factors) :
          LET out == net.g.filters_base * filter_factors[i]
              in_ == LowNf(filter_sizes(net.g), net.g, i)
              y   == InceptionModule(net.g, in_, out, Shape(in_, 16, 16))
          IN  y.ok /\ y.c = out

-----------------------------------------------------------------------------
(* A run of the remapping script.                                          *)

\* df = pd.read_csv("train_wkt_v4FULL.csv")
ReadCsv ==
    \E df \in LabelTables :
        /\ csv.phase = "idle"
        /\ csv' = [phase |-> "read", df |-> df]
        /\ UNCHANGED <<hps, err, op, hps_string, params, pre, n_updates, net, up>>

\* the loop and the write
RemapAndWrite ==
    /\ csv.phase = "read"
    /\ csv' = [phase |-> "done", df |-> csv.df, out |-> WriteCsv(Remap(csv.df))]
    /\ UNCHANGED <<hps, err, op, hps_string, params, pre, n_updates, net, up>>

NextCsv == ReadCsv \/ RemapAndWrite

SpecCsv == Init /\ [][NextCsv]_vars

\* the rows of df with ClassType 6 or 7, in order, relabelled 1 and 2
Kept(df) ==
    LET ks == {k \in 1..Len(df) : df[k].ClassType \in {6, 7}}
        at(n) == CHOOSE k \in ks : Cardinality({j \in ks : j <= k}) = n
    IN  [n \in 1..Cardinality(ks) |->
            <<df[at(n)].ImageId,
              IF df[at(n)].ClassType = 6 THEN 1 ELSE 2,
              df[at(n)].MultipolygonWKT>>]

\* C7: for every input table the script writes a table with the header and
\* the columns ImageId, ClassType, MultipolygonWKT whose rows are the input
\* rows of ClassType 6 or 7, in order, relabelled 1 and 2.
C7_WritesFilteredTable ==
    csv.phase = "done"
    => /\ csv.out.written
       /\ csv.out.header = Columns
       /\ csv.out.rows = Kept(csv.df)

=============================================================================
